---- MODULE Spec2Model ----
(***************************************************************************)
(* A model of the "project slider" feature of the portfolio site:          *)
(*   - transformNotionData, the client-side grouping of Notion pages        *)
(*     (src/components/projects-slider.tsx),                                *)
(*   - the GET and POST handlers of the content proxy                       *)
(*     (src/app/api/notion/projects/route.ts),                              *)
(*   - the ProjectsSlider component: its fetches, its image overlay and     *)
(*     its per-category scroll buttons.                                     *)
(* Four specifications share the variables: SpecTransform applies the       *)
(* transform to bounded raw lists, SpecProxy calls the two handlers in a    *)
(* bounded environment, Spec runs the component, SpecFetches runs its       *)
(* fetches alone and keeps the order in which their responses arrive.       *)
(***************************************************************************)
EXTENDS Integers, Sequences, FiniteSets, TLC

VARIABLES
    tInput,        \* the list handed to transformNotionData
    tOutput,       \* what it returned
    tDone,         \* whether it has been called
    notionToken,   \* process.env.NOTION_TOKEN
    upstream,      \* what the Notion API answers to a database query
    getResp,       \* the response of the GET made, if any (a list of <= 1)
    postBody,      \* the body of the POST made, if any (a list of <= 1)
    postResp,      \* the response of the POST made, if any (a list of <= 1)
    mounted,       \* whether ProjectsSlider is mounted (its effects ran)
    unmounted,     \* whether it has been torn down (its effects' cleanups ran)
    isEditMode,    \* useInlineEditor().isEditMode
    loading,       \* useState(false)
    categories,    \* useState<ProjectCategory[]>([])
    selectedImage, \* useState<string | null>(null)
    inflight,      \* the fetches started and not yet settled, oldest first,
                   \* each the URL it requested
    scrollLeft,    \* scrollLeft of each category's slider element
    event,         \* the handler that ran last, with what it was given
    staleFetches,  \* SpecFetches: how many of the outstanding fetches were
                   \* started before the fetch whose response the list holds
    lateArrival    \* SpecFetches: whether the fetch that settled last was
                   \* one of those

tvars == <<tInput, tOutput, tDone>>
pvars == <<notionToken, upstream, getResp, postBody, postResp>>

\* the order of arrival of the responses, which SpecFetches keeps
hvars == <<staleFetches, lateArrival>>

cvars == <<mounted, unmounted, isEditMode, loading, categories, selectedImage,
           inflight, scrollLeft, event, staleFetches, lateArrival>>

vars == <<tInput, tOutput, tDone,
          notionToken, upstream, getResp, postBody, postResp,
          mounted, unmounted, isEditMode, loading, categories, selectedImage,
          inflight, scrollLeft, event, staleFetches, lateArrival>>

(***************************************************************************)
(* Bounds                                                                  *)
(***************************************************************************)
\* longest raw list handed to the transform
MaxLen == 3
\* longest list of pages the upstream database returns to the proxy
MaxUpstream == 2
\* longest list of pages the upstream returns while the component runs
MaxRecords == 3
\* how many fetches of the component are outstanding at once
MaxInflight == 2
\* width in pixels of a slider's visible area
ViewportWidth == 300

(***************************************************************************)
(* JavaScript values                                                       *)
(***************************************************************************)
\* null and undefined, as strings no URL or name of the model equals
Null == "<null>"
Undefined == "<undefined>"

\* JavaScript truthiness of a string | null | undefined value
Truthy(v) == v # Null /\ v # Undefined /\ v # ""

\* a || b on such values
OrElse(a, b) == IF Truthy(a) THEN a ELSE b

(***************************************************************************)
(* Notion pages.  Category.select is a record whose isNull flag tells a    *)
(* null selection from one with a name (the name may be the empty string). *)
(***************************************************************************)
PageIds == <<"p1", "p2", "p3", "p4", "p5", "p6">>
ImageUrls == <<"img1", "img2", "img3", "img4", "img5", "img6">>
LinkUrl == "https://example.org/project"

NullSelect == [isNull |-> TRUE, name |-> ""]
Select(n) == [isNull |-> FALSE, name |-> n]

\* what a page holds apart from its id and its cover URL
Shape(arch, nfiles, url, texts, sel) ==
    [archived |-> arch, files |-> nfiles, link |-> url, skills |-> texts, select |-> sel]

\* the page of that shape at position i of a list: the id and the cover URL
\* are those of the position, so that the pages of a list differ
PageAt(i, shape) ==
    [id |-> PageIds[i],
     archived |-> shape.archived,
     cover |-> [k \in 1..shape.files |-> ImageUrls[i]],
     link |-> shape.link,
     skills |-> shape.skills,
     select |-> shape.select]

\* the lists of at most max pages whose shapes are drawn from shapes
ListsOf(shapes, max) ==
    {[i \in DOMAIN f |-> PageAt(i, f[i])] :
        f \in UNION {[1..n -> shapes] : n \in 0..max}}

SkillLists == {<<>>, <<"React", "TypeScript">>}

(***************************************************************************)
(* transformNotionData                                                     *)
(***************************************************************************)
\* Skills.rich_text.map(text => text.plain_text).join(', ')
RECURSIVE JoinSkills(_)
JoinSkills(texts) ==
    IF Len(texts) = 0 THEN ""
    ELSE IF Len(texts) = 1 THEN texts[1]
    ELSE texts[1] \o ", " \o JoinSkills(Tail(texts))

\* the validation that drops the required-field check on skills
HasRequiredFieldsNoSkills(page) ==
    ~(Len(page.cover) = 0 \/ page.select.isNull)

\* the negation of: !Cover.files.length || !Category.select || !Skills.rich_text.length
HasRequiredFields(page) ==
    ~(Len(page.cover) = 0 \/ page.select.isNull \/ Len(page.skills) = 0)

\* the Project built from a page that passed the validation
ToProject(page) ==
    [id |-> page.id,
     image |-> page.cover[1],
     link |-> OrElse(page.link, Undefined),
     skills |-> JoinSkills(page.skills),
     category |-> page.select.name]

\* projectMap, a JavaScript Map: a sequence of entries in insertion order
MapHas(projectMap, categoryName) ==
    \E j \in 1..Len(projectMap) : projectMap[j].name = categoryName

MapSet(projectMap, categoryName, projects) ==
    IF MapHas(projectMap, categoryName)
    THEN [j \in 1..Len(projectMap) |->
            IF projectMap[j].name = categoryName
            THEN [projectMap[j] EXCEPT !.projects = projects]
            ELSE projectMap[j]]
    ELSE Append(projectMap, [name |-> categoryName, projects |-> projects])

\* a push that puts the project in front of the category's list
MapPushFront(projectMap, categoryName, project) ==
    [j \in 1..Len(projectMap) |->
        IF projectMap[j].name = categoryName
        THEN [projectMap[j] EXCEPT !.projects = <<project>> \o @]
        ELSE projectMap[j]]

\* projectMap.get(categoryName)?.push(project)
MapPush(projectMap, categoryName, project) ==
    [j \in 1..Len(projectMap) |->
        IF projectMap[j].name = categoryName
        THEN [projectMap[j] EXCEPT !.projects = Append(@, project)]
        ELSE projectMap[j]]

\* one turn of results.forEach
ForEachPage(projectMap, page) ==
    IF ~HasRequiredFields(page) THEN projectMap
    ELSE LET categoryName == page.select.name
             withKey == IF ~MapHas(projectMap, categoryName)
                        THEN MapSet(projectMap, categoryName, <<>>)
                        ELSE projectMap
         IN  MapPush(withKey, categoryName, ToProject(page))

RECURSIVE ForEachFrom(_, _, _)
ForEachFrom(results, i, projectMap) ==
    IF i > Len(results) THEN projectMap
    ELSE ForEachFrom(results, i + 1, ForEachPage(projectMap, results[i]))

\* Array.from(projectMap.entries()).map(([name, projects]) => ({name, projects}))
transformNotionData(results) == ForEachFrom(results, 1, <<>>)

(***************************************************************************)
(* SpecTransform: the transform applied to every bounded raw list          *)
(***************************************************************************)
\* The shapes of the pages the transform is given.  The link is read only
\* from a page that passes the validation, so only those vary it.
TransformShapes ==
    {Shape(FALSE, c, Null, s, sel) :
        c \in {0, 1}, s \in SkillLists,
        sel \in {NullSelect, Select("Web"), Select("Mobile")}}
    \cup {Shape(FALSE, 1, l, <<"React">>, Select(n)) :
            l \in {"", LinkUrl}, n \in {"Web", "Mobile", ""}}

RawLists == ListsOf(TransformShapes, MaxLen)

\* the transform before its call
TIdle ==
    /\ tInput = <<>>
    /\ tOutput = <<>>
    /\ tDone = FALSE

\* the proxy before any call, in an environment without credential
PIdle ==
    /\ notionToken = Undefined
    /\ upstream = [kind |-> "throws", status |-> 0, shape |-> "none", results |-> <<>>]
    /\ getResp = <<>>
    /\ postBody = <<>>
    /\ postResp = <<>>

CategoryNames == {"Web", "Mobile"}

\* results is the list the response of a settled fetch carried
NoEvent ==
    [kind |-> "none", name |-> "", dir |-> "", left |-> 0, results |-> <<>>]

\* the component as constructed, before its effects run
CIdle ==
    /\ mounted = FALSE
    /\ unmounted = FALSE
    /\ isEditMode = FALSE
    /\ loading = FALSE
    /\ categories = <<>>
    /\ selectedImage = Null
    /\ inflight = <<>>
    /\ scrollLeft = [n \in CategoryNames |-> 0]
    /\ event = NoEvent
    /\ staleFetches = 0
    /\ lateArrival = FALSE

TInit ==
    /\ tInput \in RawLists
    /\ tOutput = <<>>
    /\ tDone = FALSE
    /\ PIdle
    /\ CIdle

CallTransform ==
    /\ ~tDone
    /\ tOutput' = transformNotionData(tInput)
    /\ tDone' = TRUE
    /\ UNCHANGED <<tInput, pvars, cvars>>

TNext == CallTransform

SpecTransform == TInit /\ [][TNext]_vars

(***************************************************************************)
(* The content proxy: GET and POST of /api/notion/projects                 *)
(***************************************************************************)
\* NextResponse.json's status when none is given
StatusOk == 200
\* the status of the handlers' own failures
StatusServerError == 500

\* the error texts of the handlers (English renderings of the literals)
ErrNoToken == "Notion API token is not set"
ErrBadFormat == "Invalid Notion response format"
ErrServer == "A server error occurred"
ErrUpstream(status) == "Notion API call failed: " \o ToString(status)

\* NextResponse.json({success: false, error}, {status})
Failure(status, error, contacted) ==
    [status |-> status, success |-> FALSE, error |-> error,
     hasResults |-> FALSE, results |-> <<>>, total |-> 0,
     contacted |-> contacted]

\* NextResponse.json({success: true, results, total})
Success(results) ==
    [status |-> StatusOk, success |-> TRUE, error |-> Undefined,
     hasResults |-> TRUE, results |-> results, total |-> Len(results),
     contacted |-> TRUE]

\* response.ok of the fetch API
ResponseOk(status) == status >= 200 /\ status <= 299

\* a filter that forgets the archived flag
KeepPageIgnoringArchived(page) ==
    /\ Len(page.cover) > 0
    /\ ~page.select.isNull /\ Truthy(page.select.name)
    /\ Len(page.skills) > 0

\* the predicate of data.results.filter: !page.archived && Cover.files.length > 0
\* && Category.select?.name && Skills.rich_text.length > 0
KeepPage(page) ==
    /\ ~page.archived
    /\ Len(page.cover) > 0
    /\ ~page.select.isNull /\ Truthy(page.select.name)
    /\ Len(page.skills) > 0

\* Array.prototype.filter with that predicate
RECURSIVE FilterPages(_)
FilterPages(results) ==
    IF Len(results) = 0 THEN <<>>
    ELSE IF KeepPage(Head(results))
         THEN <<Head(results)>> \o FilterPages(Tail(results))
         ELSE FilterPages(Tail(results))

\* a non-ok branch that answers 500 instead of the upstream's status
UpstreamFailureAs500(status) == Failure(StatusServerError, ErrUpstream(status), TRUE)

\* the !response.ok branch of both handlers
UpstreamFailure(status) == Failure(status, ErrUpstream(status), TRUE)

\* export async function GET()
GET(token, answer) ==
    IF ~Truthy(token)
    THEN Failure(StatusServerError, ErrNoToken, FALSE)
    ELSE IF answer.kind = "throws"
    THEN Failure(StatusServerError, ErrServer, TRUE)
    ELSE IF ~ResponseOk(answer.status)
    THEN UpstreamFailure(answer.status)
    ELSE IF answer.shape \in {"invalid_json", "json_null"}
    THEN Failure(StatusServerError, ErrServer, TRUE)
    ELSE IF answer.shape \in {"no_results", "not_a_list"}
    THEN Failure(StatusServerError, ErrBadFormat, TRUE)
    ELSE Success(FilterPages(answer.results))

\* the request bodies of a POST: no body at all, the JSON text null, or a JSON
\* object with its filters keys and its sorts
EmptyBody == [json |-> "empty", filters |-> {}, sorts |-> <<>>]
NullBody == [json |-> "null", filters |-> {}, sorts |-> <<>>]
ObjectBody(filters, sorts) == [json |-> "object", filters |-> filters, sorts |-> sorts]

\* whether request.json() and the destructuring of its value succeed: the
\* first throws on a body that is no JSON text, the second on null
BodyReadable(body) == body.json = "object"

\* export async function POST(request); data.results.filter throws when
\* results is missing or has no filter method, and the catch answers
POST(token, answer, body) ==
    IF ~BodyReadable(body)
    THEN Failure(StatusServerError, ErrServer, FALSE)
    ELSE IF ~Truthy(token)
    THEN Failure(StatusServerError, ErrNoToken, FALSE)
    ELSE IF answer.kind = "throws"
    THEN Failure(StatusServerError, ErrServer, TRUE)
    ELSE IF ~ResponseOk(answer.status)
    THEN UpstreamFailure(answer.status)
    ELSE IF answer.shape \in {"invalid_json", "json_null"}
    THEN Failure(StatusServerError, ErrServer, TRUE)
    ELSE IF answer.shape \in {"no_results", "not_a_list"}
    THEN Failure(StatusServerError, ErrServer, TRUE)
    ELSE Success(FilterPages(answer.results))

(***************************************************************************)
(* SpecProxy: one GET and one POST in the same environment                 *)
(***************************************************************************)
\* The shapes of the pages of the upstream database
ProxyShapes ==
    {Shape(a, c, Null, s, sel) :
        a \in BOOLEAN, c \in {0, 1}, s \in SkillLists,
        sel \in {NullSelect, Select(""), Select("Web")}}

Tokens == {Undefined, "", "secret_token"}
UpstreamStatuses == {200, 401, 404, 500}

\* what the upstream can answer: the fetch rejects, or a response with a
\* status and a payload that is no JSON, the JSON null, an object without
\* results, an object whose results is no list, or a list of pages
UpstreamAnswers ==
    {[kind |-> "throws", status |-> 0, shape |-> "none", results |-> <<>>]}
    \cup {[kind |-> "http", status |-> st, shape |-> sh, results |-> <<>>] :
            st \in UpstreamStatuses,
            sh \in {"invalid_json", "json_null", "no_results", "not_a_list"}}
    \cup {[kind |-> "http", status |-> st, shape |-> "list", results |-> r] :
            st \in {200},
            r \in ListsOf(ProxyShapes, MaxUpstream)}

RequestBodies ==
    {EmptyBody, NullBody, ObjectBody({}, <<>>),
     ObjectBody({"property"}, <<[property |-> "Name", direction |-> "ascending"]>>)}

PInit ==
    /\ TIdle
    /\ CIdle
    /\ notionToken \in Tokens
    /\ upstream \in UpstreamAnswers
    /\ getResp = <<>>
    /\ postBody = <<>>
    /\ postResp = <<>>

CallGET ==
    /\ getResp = <<>>
    /\ getResp' = <<GET(notionToken, upstream)>>
    /\ UNCHANGED <<tvars, cvars, notionToken, upstream, postBody, postResp>>

CallPOST(body) ==
    /\ postResp = <<>>
    /\ postBody' = <<body>>
    /\ postResp' = <<POST(notionToken, upstream, body)>>
    /\ UNCHANGED <<tvars, cvars, notionToken, upstream, getResp>>

PNext ==
    \/ CallGET
    \/ \E body \in RequestBodies : CallPOST(body)

SpecProxy == PInit /\ [][PNext]_vars

(***************************************************************************)
(* The ProjectsSlider component                                            *)
(***************************************************************************)
\* const scrollAmount = 320
scrollAmount == 320
\* w-80, the width of a card
CardWidth == 320
\* gap-6, the gap between two cards
CardGap == 24

Max(a, b) == IF a >= b THEN a ELSE b
Min(a, b) == IF a <= b THEN a ELSE b

\* the category of that name in a list of categories, as a list of <= 1
Named(cats, name) == SelectSeq(cats, LAMBDA c : c.name = name)

\* scrollWidth - clientWidth of the slider of a category with n cards
MaxScrollLeft(n) ==
    IF n = 0 THEN 0
    ELSE Max(0, n * CardWidth + (n - 1) * CardGap - ViewportWidth)

\* the largest offset the slider of that category accepts; 0 without slider
MaxScrollOf(cats, name) ==
    IF Named(cats, name) = <<>> THEN 0
    ELSE MaxScrollLeft(Len(Named(cats, name)[1].projects))

\* element.scrollTo({left}) on a slider: the container's native bounds apply
ScrollTo(cats, name, left) == Max(0, Min(left, MaxScrollOf(cats, name)))

\* sliderRefs.current[name]: set while the category's slider is rendered
SliderRef(cats, name) == Named(cats, name) # <<>>

\* the offsets after a render of cats: a slider keyed by a name that stays
\* keeps its offset within its new bounds, a new slider starts at 0
Rerender(cats, offsets) ==
    [n \in CategoryNames |-> Min(offsets[n], MaxScrollOf(cats, n))]

\* a scroll by the card-plus-gap width the classes give, 344
NewScrollLeftByCardAndGap(current, direction) ==
    IF direction = "left"
    THEN current - (CardWidth + CardGap)
    ELSE current + (CardWidth + CardGap)

\* newScrollLeft of scrollSlider
NewScrollLeft(current, direction) ==
    IF direction = "left"
    THEN current - scrollAmount
    ELSE current + scrollAmount

\* whether one more fetch may be outstanding
CanStart == Len(inflight) < MaxInflight

\* loadProjectsFromNotion up to its await: setLoading(true), then the fetch
StartFetch ==
    /\ loading' = TRUE
    /\ inflight' = Append(inflight, "/api/notion/projects")

\* the mount: the effect on [isEditMode] runs a first time.  The model
\* follows one instance of the component; a later mount is another instance,
\* with state cells of its own
Mount ==
    /\ ~mounted
    /\ ~unmounted
    /\ CanStart
    /\ mounted' = TRUE
    /\ StartFetch
    /\ event' = [NoEvent EXCEPT !.kind = "mount"]
    /\ UNCHANGED <<unmounted, isEditMode, categories, selectedImage, scrollLeft>>

\* isEditMode changes: the effect on [isEditMode] runs again
ToggleEditMode ==
    /\ mounted
    /\ CanStart
    /\ isEditMode' = ~isEditMode
    /\ StartFetch
    /\ event' = [NoEvent EXCEPT !.kind = "toggle"]
    /\ UNCHANGED <<mounted, unmounted, categories, selectedImage, scrollLeft>>

\* a handler that empties the list on a failed fetch
CategoriesAfterOrEmpty(outcome, cats) ==
    IF outcome.kind = "response" /\ outcome.data.success
    THEN transformNotionData(outcome.data.results)
    ELSE <<>>

\* the category list after loadProjectsFromNotion resumes with outcome:
\* set on data.success, left alone in the else branch and in the catch
CategoriesAfter(outcome, cats) ==
    IF outcome.kind = "response" /\ outcome.data.success
    THEN transformNotionData(outcome.data.results)
    ELSE cats

\* how the fetch ended, as the branch of loadProjectsFromNotion that ran
OutcomeTag(outcome) ==
    IF outcome.kind = "rejected" THEN "network"
    ELSE IF outcome.data.success THEN "success" ELSE "failure"

\* a list without its element at position f
Without(list, f) == [j \in 1..(Len(list) - 1) |-> IF j < f THEN list[j] ELSE list[j + 1]]

\* a continuation that drops a response once the component is torn down or a
\* later call's response has set the list
SettleUnlessSuperseded(f, outcome) ==
    /\ f \in 1..Len(inflight)
    /\ inflight' = Without(inflight, f)
    /\ event' = [NoEvent EXCEPT !.kind = "settle", !.name = OutcomeTag(outcome),
                                !.results = outcome.data.results]
    /\ IF unmounted \/ f <= staleFetches
       THEN UNCHANGED <<categories, scrollLeft, loading>>
       ELSE /\ categories' = CategoriesAfter(outcome, categories)
            /\ scrollLeft' = Rerender(categories', scrollLeft)
            /\ loading' = FALSE
    /\ UNCHANGED <<mounted, unmounted, isEditMode, selectedImage>>

\* the rest of loadProjectsFromNotion for the fetch at position f, through
\* its finally { setLoading(false) }; nothing in it asks whether the
\* component is still mounted or whether a later call has resumed already
Settle(f, outcome) ==
    /\ f \in 1..Len(inflight)
    /\ inflight' = Without(inflight, f)
    /\ categories' = CategoriesAfter(outcome, categories)
    /\ scrollLeft' = Rerender(categories', scrollLeft)
    /\ loading' = FALSE
    /\ event' = [NoEvent EXCEPT !.kind = "settle", !.name = OutcomeTag(outcome),
                                !.results = outcome.data.results]
    /\ UNCHANGED <<mounted, unmounted, isEditMode, selectedImage>>

\* the teardown: the cleanup of the keydown effect removes the listener, the
\* effect on [isEditMode] has no cleanup, so the fetches stay outstanding;
\* the slider elements leave the document
Unmount ==
    /\ mounted
    /\ mounted' = FALSE
    /\ unmounted' = TRUE
    /\ scrollLeft' = [n \in CategoryNames |-> 0]
    /\ event' = [NoEvent EXCEPT !.kind = "unmount"]
    /\ UNCHANGED <<isEditMode, loading, categories, selectedImage, inflight>>

\* scrollSlider(categoryName, direction), from a navigation button; the
\* buttons are rendered for a category with more than one project
ScrollButton(name, direction) ==
    /\ mounted
    /\ Named(categories, name) # <<>>
    /\ Len(Named(categories, name)[1].projects) > 1
    /\ LET left == NewScrollLeft(scrollLeft[name], direction)
       IN  IF ~SliderRef(categories, name)
           THEN /\ scrollLeft' = scrollLeft
                /\ event' = [NoEvent EXCEPT !.kind = "noslider", !.name = name]
           ELSE /\ scrollLeft' = [scrollLeft EXCEPT ![name] = ScrollTo(categories, name, left)]
                /\ event' = [NoEvent EXCEPT !.kind = "scroll", !.name = name,
                                            !.dir = direction, !.left = left]
    /\ UNCHANGED <<mounted, unmounted, isEditMode, loading, categories,
                   selectedImage, inflight>>

\* the user scrolls a rendered slider (overflow-x-auto) to its start or end
UserScroll(name, toEnd) ==
    /\ mounted
    /\ SliderRef(categories, name)
    /\ scrollLeft' = [scrollLeft EXCEPT
                        ![name] = IF toEnd THEN MaxScrollOf(categories, name) ELSE 0]
    /\ event' = [NoEvent EXCEPT !.kind = "userscroll", !.name = name]
    /\ UNCHANGED <<mounted, unmounted, isEditMode, loading, categories,
                   selectedImage, inflight>>

\* a card that opens the overlay whether or not the project has a link
CardClickAlwaysOpens(project, selected) == project.image

\* the overlay state after a click on a project's card: an <a> without
\* handler when project.link is truthy, a <div> with onClick otherwise
CardClick(project, selected) ==
    IF Truthy(project.link) THEN selected ELSE project.image

ClickCard(g, k) ==
    /\ mounted
    /\ g \in 1..Len(categories)
    /\ k \in 1..Len(categories[g].projects)
    /\ selectedImage' = CardClick(categories[g].projects[k], selectedImage)
    /\ event' = [NoEvent EXCEPT !.kind = "card", !.name = categories[g].projects[k].id]
    /\ UNCHANGED <<mounted, unmounted, isEditMode, loading, categories,
                   inflight, scrollLeft>>

\* a modal container whose click reaches the backdrop's handler
ContainerClickPropagates(selected) == Null

\* onClick of the modal container: e.stopPropagation(), nothing else runs
ContainerClick(selected) == selected

\* a click inside the overlay, on the backdrop, on the close button, or on
\* the modal container's content
ClickOverlay(target) ==
    /\ mounted
    /\ Truthy(selectedImage)
    /\ selectedImage' =
          CASE target = "backdrop" -> Null
            [] target = "close" -> ContainerClick(Null)
            [] target = "content" -> ContainerClick(selectedImage)
    /\ event' = [NoEvent EXCEPT !.kind = target]
    /\ UNCHANGED <<mounted, unmounted, isEditMode, loading, categories,
                   inflight, scrollLeft>>

\* handleEsc
handleEsc(key, selected) == IF key = "Escape" THEN Null ELSE selected

\* a keydown on the window
KeyDown(key) ==
    /\ mounted
    /\ selectedImage' = handleEsc(key, selectedImage)
    /\ event' = [NoEvent EXCEPT !.kind = "key", !.name = key]
    /\ UNCHANGED <<mounted, unmounted, isEditMode, loading, categories,
                   inflight, scrollLeft>>

(***************************************************************************)
(* Spec: the component, its fetches answered by GET                        *)
(***************************************************************************)
\* The shapes of the pages of the upstream database while the component
\* runs: a Web page without link, a Web page with a link, a Mobile page
\* whose link is the empty string, an archived page
ComponentShapes ==
    {Shape(FALSE, 1, Null, <<"React">>, Select("Web")),
     Shape(FALSE, 1, LinkUrl, <<"React">>, Select("Web")),
     Shape(FALSE, 1, "", <<"React">>, Select("Mobile")),
     Shape(TRUE, 1, Null, <<"React">>, Select("Web"))}

\* at an odd position a page without link, at an even one the others
ComponentLists ==
    {r \in ListsOf(ComponentShapes, MaxRecords) :
        \A i \in 1..Len(r) :
            (i % 2 = 1) <=> (~r[i].archived /\ ~Truthy(r[i].link))}

ComponentAnswers ==
    {[kind |-> "throws", status |-> 0, shape |-> "none", results |-> <<>>],
     [kind |-> "http", status |-> 404, shape |-> "no_results", results |-> <<>>],
     [kind |-> "http", status |-> 200, shape |-> "no_results", results |-> <<>>]}
    \cup {[kind |-> "http", status |-> 200, shape |-> "list", results |-> r] :
            r \in ComponentLists}

\* how a fetch of /api/notion/projects ends: it rejects (or response.json()
\* does), or it yields the envelope GET answers in some environment
FetchOutcomes ==
    {[kind |-> "rejected", data |-> Failure(0, "", FALSE)]}
    \cup {[kind |-> "response", data |-> GET(token, answer)] :
            token \in {Undefined, "secret_token"}, answer \in ComponentAnswers}

Keys == {"Escape", "Enter"}

Init ==
    /\ TIdle
    /\ PIdle
    /\ CIdle

Next ==
    \/ Mount /\ UNCHANGED <<tvars, pvars, hvars>>
    \/ ToggleEditMode /\ UNCHANGED <<tvars, pvars, hvars>>
    \/ \E f \in 1..Len(inflight), outcome \in FetchOutcomes :
          Settle(f, outcome) /\ UNCHANGED <<tvars, pvars, hvars>>
    \/ \E name \in CategoryNames, direction \in {"left", "right"} :
          ScrollButton(name, direction) /\ UNCHANGED <<tvars, pvars, hvars>>
    \/ \E name \in CategoryNames, toEnd \in BOOLEAN :
          UserScroll(name, toEnd) /\ UNCHANGED <<tvars, pvars, hvars>>
    \/ \E g \in 1..Len(categories) : \E k \in 1..Len(categories[g].projects) :
          ClickCard(g, k) /\ UNCHANGED <<tvars, pvars, hvars>>
    \/ \E target \in {"backdrop", "close", "content"} :
          ClickOverlay(target) /\ UNCHANGED <<tvars, pvars, hvars>>
    \/ \E key \in Keys : KeyDown(key) /\ UNCHANGED <<tvars, pvars, hvars>>
    \/ Unmount /\ UNCHANGED <<tvars, pvars, hvars>>

Spec == Init /\ [][Next]_vars

(***************************************************************************)
(* SpecFetches: the calls of loadProjectsFromNotion of one instance of the  *)
(* component, from its mount to after its teardown, with the order in which *)
(* their responses arrive                                                  *)
(***************************************************************************)
\* the fetches older than the one whose response the list holds, once the
\* fetch at position f has settled: all those before it when its response set
\* the list, one fewer when it was one of them and left the list alone
StaleAfter(f, outcome, stale) ==
    IF OutcomeTag(outcome) = "success" THEN f - 1
    ELSE IF f <= stale THEN stale - 1
    ELSE stale

\* the fetch at position f settles: what becomes of the order of arrival
Arrive(f, outcome) ==
    /\ staleFetches' = StaleAfter(f, outcome, staleFetches)
    /\ lateArrival' = (f <= staleFetches)

FNext ==
    \/ Mount /\ UNCHANGED <<tvars, pvars, hvars>>
    \/ ToggleEditMode /\ UNCHANGED <<tvars, pvars, hvars>>
    \/ \E f \in 1..Len(inflight), outcome \in FetchOutcomes :
          Settle(f, outcome) /\ Arrive(f, outcome) /\ UNCHANGED <<tvars, pvars>>
    \/ Unmount /\ UNCHANGED <<tvars, pvars, hvars>>

SpecFetches == Init /\ [][FNext]_vars

(***************************************************************************)
(* Claims about the transform (checked under SpecTransform)                *)
(***************************************************************************)
\* every project of every emitted group, as a set
EmittedProjects ==
    UNION {{tOutput[g].projects[k] : k \in 1..Len(tOutput[g].projects)} :
             g \in 1..Len(tOutput)}

\* a record that has a cover file, a category selection and a skills entry
RecordComplete(page) ==
    /\ Len(page.cover) > 0
    /\ ~page.select.isNull
    /\ Len(page.skills) > 0

\* C1: no record with an empty cover-files list, a null category selection or
\* an empty skills list appears in an emitted CategoryGroup, and every emitted
\* project comes from a record of the input that has all three.
C1_OnlyCompleteRecordsEmitted ==
    tDone =>
        /\ \A i \in 1..Len(tInput) :
              (\/ Len(tInput[i].cover) = 0
               \/ tInput[i].select.isNull
               \/ Len(tInput[i].skills) = 0)
              => \A pr \in EmittedProjects : pr.id # tInput[i].id
        /\ \A pr \in EmittedProjects :
              \E i \in 1..Len(tInput) :
                  /\ tInput[i].id = pr.id
                  /\ Len(tInput[i].cover) > 0
                  /\ ~tInput[i].select.isNull
                  /\ Len(tInput[i].skills) > 0

\* a list with a record that lacks only its cover, next to a complete record
\* that was emitted
C1_Witness ==
    /\ tDone
    /\ \E i \in 1..Len(tInput) :
          /\ Len(tInput[i].cover) = 0
          /\ ~tInput[i].select.isNull
          /\ Len(tInput[i].skills) > 0
    /\ EmittedProjects # {}

\* the positions of the complete records of category name, in input order
RECURSIVE PositionsFrom(_, _)
PositionsFrom(i, name) ==
    IF i > Len(tInput) THEN <<>>
    ELSE IF RecordComplete(tInput[i]) /\ tInput[i].select.name = name
         THEN <<i>> \o PositionsFrom(i + 1, name)
         ELSE PositionsFrom(i + 1, name)

\* C2: the group names are pairwise distinct and ordered by the position of
\* each category's first complete record; the projects of a group are exactly
\* the complete records of that category, in input order, each exactly once.
C2_GroupingPreservesOrder ==
    tDone =>
        /\ \A g, h \in 1..Len(tOutput) :
              g # h => tOutput[g].name # tOutput[h].name
        /\ {tOutput[g].name : g \in 1..Len(tOutput)}
              = {tInput[i].select.name :
                   i \in {j \in 1..Len(tInput) : RecordComplete(tInput[j])}}
        /\ \A g, h \in 1..Len(tOutput) :
              g < h => PositionsFrom(1, tOutput[g].name)[1]
                         < PositionsFrom(1, tOutput[h].name)[1]
        /\ \A g \in 1..Len(tOutput) :
              LET at == PositionsFrom(1, tOutput[g].name)
              IN  /\ Len(tOutput[g].projects) = Len(at)
                  /\ \A k \in 1..Len(at) :
                        /\ tOutput[g].projects[k].id = tInput[at[k]].id
                        /\ tOutput[g].projects[k].image = tInput[at[k]].cover[1]
                        /\ tOutput[g].projects[k].category = tOutput[g].name

\* two groups, the first one holding two records that another category's
\* record separates in the input
C2_Witness ==
    /\ tDone
    /\ Len(tOutput) = 2
    /\ Len(tOutput[1].projects) = 2
    /\ Len(tInput) = 3
    /\ tOutput[2].projects[1].id = tInput[2].id

(***************************************************************************)
(* Claims about the proxy (checked under SpecProxy)                        *)
(***************************************************************************)
\* the responses of the calls made so far
Responses ==
    {getResp[k] : k \in 1..Len(getResp)} \cup {postResp[k] : k \in 1..Len(postResp)}

\* the upstream was queried and answered 2xx with a list of records
UpstreamQuerySucceeded(r) ==
    /\ r.contacted
    /\ upstream.kind = "http"
    /\ ResponseOk(upstream.status)
    /\ upstream.shape = "list"

\* the records the claim C3 keeps: any category selection counts
HasSelection(page) ==
    /\ ~page.archived
    /\ Len(page.cover) > 0
    /\ ~page.select.isNull
    /\ Len(page.skills) > 0

\* C3 as stated: on a successful upstream query GET and POST return
\* success:true with results equal to the upstream records, in upstream order,
\* that are not archived, have a cover file, have a category selection and have
\* a skills entry, and total equal to the number of results.
C3_AsStated ==
    \A r \in Responses :
        UpstreamQuerySucceeded(r) =>
            /\ r.success /\ r.hasResults
            /\ r.results = SelectSeq(upstream.results, HasSelection)
            /\ r.total = Len(r.results)

\* the records the handlers keep: the selection's name must be non-empty too
HasNamedSelection(page) ==
    /\ ~page.archived
    /\ Len(page.cover) > 0
    /\ ~page.select.isNull /\ page.select.name # ""
    /\ Len(page.skills) > 0

\* C3 (amended): on a successful upstream query GET and POST return
\* success:true with results equal to the upstream records, in upstream order,
\* that are not archived, have a cover file, have a category selection with a
\* non-empty name and have a skills entry, and total equal to their number.
C3_ProxyKeepsNamedCompleteRecords ==
    \A r \in Responses :
        UpstreamQuerySucceeded(r) =>
            /\ r.success /\ r.hasResults
            /\ r.results = SelectSeq(upstream.results, HasNamedSelection)
            /\ r.total = Len(r.results)

\* both handlers answered a list of two records of which the first, complete
\* but archived, was dropped and the second kept
C3_Witness ==
    /\ getResp # <<>> /\ postResp # <<>>
    /\ Len(upstream.results) = 2
    /\ upstream.results[1].archived /\ HasNamedSelection(upstream.results[2])
    /\ Len(upstream.results[1].cover) > 0 /\ Len(upstream.results[1].skills) > 0
    /\ upstream.results[1].select = Select("Web")
    /\ getResp[1].success /\ getResp[1].results = <<upstream.results[2]>>
    /\ postResp[1].success /\ postResp[1].total = 1

\* C4: every failing call answers {success:false, error} without results:
\* status 500 when the credential is absent (the upstream is not contacted) or
\* the upstream payload has a missing or non-list results field, the
\* upstream's status when it answers non-2xx; no response is a partial success.
C4_FailureEnvelope ==
    \A r \in Responses :
        /\ ~r.success =>
              /\ ~r.hasResults
              /\ r.error \notin {Undefined, Null}
              /\ ~ResponseOk(r.status)
        /\ r.success =>
              /\ r.hasResults /\ r.error = Undefined
              /\ r.status = 200
              /\ UpstreamQuerySucceeded(r)
        /\ ~Truthy(notionToken) =>
              ~r.success /\ r.status = 500 /\ ~r.contacted
        /\ (r.contacted /\ upstream.kind = "http" /\ ResponseOk(upstream.status)
              /\ upstream.shape \in {"no_results", "not_a_list"}) =>
              ~r.success /\ r.status = 500
        /\ (r.contacted /\ upstream.kind = "http" /\ ~ResponseOk(upstream.status)) =>
              ~r.success /\ r.status = upstream.status

\* GET and POST both relayed the upstream's 404
C4_Witness ==
    /\ getResp # <<>> /\ postResp # <<>>
    /\ upstream.kind = "http" /\ upstream.status = 404
    /\ getResp[1].contacted /\ postResp[1].contacted
    /\ getResp[1].status = 404 /\ postResp[1].status = 404
    /\ ~getResp[1].success /\ ~postResp[1].success

\* what a client sees of a response: its status and its envelope
Visible(r) ==
    [status |-> r.status, success |-> r.success, error |-> r.error,
     hasResults |-> r.hasResults, results |-> r.results, total |-> r.total]

\* C5: a POST with an empty body returns the same status and the same
\* envelope as a GET in the same environment with the same upstream answer.
C5_EmptyPostEqualsGet ==
    (getResp # <<>> /\ postResp # <<>> /\ postBody[1] = EmptyBody)
        => Visible(postResp[1]) = Visible(getResp[1])

(***************************************************************************)
(* Claims about the component (checked under Spec)                         *)
(***************************************************************************)
\* the empty-state message is rendered: !loading && categories.length === 0
ViewEmpty == ~loading /\ Len(categories) = 0

\* the last handler was a fetch ending in the catch or in the else branch
FetchFailed == event.kind = "settle" /\ event.name \in {"network", "failure"}

\* C6: while a fetch started by the component is outstanding the loading flag
\* is true, and every fetch completion takes the flag from true to false,
\* also when a second fetch was started before the first one settled.
C6_LoadingWhileOutstanding ==
    /\ [](inflight # <<>> => loading)
    /\ [][event'.kind = "settle" => (loading /\ ~loading')]_vars

\* C7 as stated: after a fetch that ends in a network error or a non-success
\* envelope the category list is empty and the view is in the empty state,
\* whatever fetches succeeded before it.
C7_AsStated == FetchFailed => (categories = <<>> /\ ViewEmpty)

\* C7 (amended): a fetch that ends in a network error or a non-success
\* envelope leaves the category list as it was and the loading flag false; the
\* view is in the empty state after it if the list was empty before it.
C7_FailedFetchKeepsList ==
    [][FetchFailed' =>
          /\ categories' = categories
          /\ ~loading'
          /\ (categories = <<>> => ViewEmpty')]_vars

\* a fetch failed while the list an earlier fetch delivered is displayed
C7_Witness ==
    /\ FetchFailed
    /\ event.name = "failure"
    /\ categories # <<>>
    /\ ~loading

\* the projects displayed, and the one whose card the last click was on
DisplayedProjects ==
    UNION {{categories[g].projects[k] : k \in 1..Len(categories[g].projects)} :
             g \in 1..Len(categories)}

Clicked == CHOOSE pr \in DisplayedProjects : pr.id = event.name

\* the cover URL of the record of that id
ImageOfRecord(id) == ImageUrls[CHOOSE i \in DOMAIN PageIds : PageIds[i] = id]

\* C8: the overlay is one value, null or one image URL: opening an image
\* while another is open leaves it equal to the new one; a backdrop click, a
\* close-button click and the Escape key each set it to null; a click on the
\* overlay's inner content leaves it unchanged.
C8_OverlayIsOneValue ==
    /\ [](selectedImage \in {Null} \cup {ImageUrls[i] : i \in DOMAIN ImageUrls})
    /\ [][/\ (event'.kind = "card" /\ ~Truthy(Clicked'.link))
                => selectedImage' = Clicked'.image
          /\ event'.kind \in {"backdrop", "close"} => selectedImage' = Null
          /\ (event'.kind = "key" /\ event'.name = "Escape") => selectedImage' = Null
          /\ event'.kind = "content" => selectedImage' = selectedImage]_vars

\* the inner content was clicked and the overlay still shows its image
C8_Witness ==
    /\ event.kind = "content"
    /\ Truthy(selectedImage)

\* C9: a click on the card of a record with an external link never changes
\* the overlay state; a click on the card of a record without link sets the
\* overlay image to that record's image URL.
C9_CardClick ==
    /\ [](\A pr \in DisplayedProjects : pr.link \in {Undefined, LinkUrl})
    /\ [][event'.kind = "card" =>
             IF Clicked'.link = LinkUrl
             THEN selectedImage' = selectedImage
             ELSE selectedImage' = ImageOfRecord(event'.name)]_vars

\* a card with a link was clicked while the overlay was showing an image
C9_Witness ==
    /\ event.kind = "card"
    /\ Clicked.link = LinkUrl
    /\ Truthy(selectedImage)

FetchSucceeded == event.kind = "settle" /\ event.name = "success"

\* C11: an in-flight fetch is never cancelled: no handler other than a
\* fetch's own completion takes a fetch out of the outstanding ones, neither
\* the start of a second fetch (edit-mode toggle) nor the teardown, and a
\* completion takes out exactly one; every successful response is applied
\* when it arrives, the category list becoming the grouping of its records,
\* also when it is the response of an older fetch arriving after a newer one
\* has set the list, and also when it arrives after the teardown.
C11_NoCancellation ==
    /\ [][event'.kind # "settle" =>
             /\ Len(inflight') >= Len(inflight)
             /\ SubSeq(inflight', 1, Len(inflight)) = inflight]_vars
    /\ [][event'.kind = "settle" => Len(inflight') = Len(inflight) - 1]_vars
    /\ [][FetchSucceeded' =>
             categories' = transformNotionData(event'.results)]_vars

\* after the teardown the older of two fetches, the newer of which had set
\* the list, succeeded last and the list is the grouping of its records
C11_Witness ==
    /\ FetchSucceeded
    /\ lateArrival
    /\ unmounted
    /\ inflight = <<>>
    /\ event.results # <<>>
    /\ categories # <<>>
    /\ categories = transformNotionData(event.results)

====
